---- MODULE Spec2Model ----
(***************************************************************************)
(* Model of renderdoc/driver/gl/egl_platform.cpp: the EGL platform binding *)
(* (class EGLPlatform) and the replay-side population of the EGL dispatch  *)
(* table (EGLDispatchTable::PopulateForReplay).                            *)
(*                                                                         *)
(* The persistent state of the program is the dispatch table EGL (which    *)
(* entry points are resolved) and, in the driver, the calling thread's     *)
(* current binding.  Every operation of the platform is one action: it     *)
(* runs the handler from entry to return against driver responses drawn    *)
(* from small sets, and leaves in log the driver calls it issued (with the *)
(* binding that was current when each was issued), in diag the diagnostics *)
(* it emitted and in ret what it returned.  Calling a null entry point of  *)
(* the table is a fault: the process stops (pc = "crashed").               *)
(***************************************************************************)
EXTENDS Integers, Sequences, FiniteSets, TLC

VARIABLES
  EGL,     \* the dispatch table: entry point name -> resolved (non-null)
  cur,     \* driver: the calling thread's current binding
  pc,      \* "idle" | "returned" | "crashed"
  op,      \* the operation that last ran
  arg,     \* its record argument (NullRecord when it takes none)
  entry,   \* the binding that was current when it was entered
  log,     \* the driver and loader calls it issued, in order
  diag,    \* the diagnostics it emitted, in order
  ret,     \* what it returned
  opened,    \* the loader holds the driver module (a LoadModule has succeeded)
  populated  \* "never" | "failed" | "succeeded": whether PopulateForReplay
             \* has returned, and whether a call of it has returned true

vars == <<EGL, cur, pc, op, arg, entry, log, diag, ret, opened, populated>>

----------------------------------------------------------------------------
(* Bounds of the model *)

\* handles the driver hands out for contexts and for surfaces: 1..MaxHandles
MaxHandles == 2

\* mandatory symbols the loaded driver module may fail to export
MaxMissing == 1

----------------------------------------------------------------------------
(* Program constants *)

NULL == 0
EGL_FALSE == 0
EGL_TRUE == 1
EGL_PBUFFER_BIT == 1
EGL_WINDOW_BIT == 4
PbufferSize == 32

\* the two shapes of attribute list CreateContext is given
VersionedRequest == 1
LegacyRequest == 2

\* what a call through a null entry point is logged as returning
Faulted == -1

Handles == 1 .. MaxHandles

\* GetDisplay(EGL_DEFAULT_DISPLAY) answers the default display or EGL_NO_DISPLAY
DefaultDisplay == 1
Displays == {NULL, DefaultDisplay}

\* GLWindowingData as this file uses it: egl_dpy, egl_ctx (alias ctx),
\* egl_wnd (alias wnd)
Record(d, c, w) == [dpy |-> d, ctx |-> c, wnd |-> w]

\* a default-constructed or erased GLWindowingData
NullRecord == Record(NULL, NULL, NULL)

\* the records a caller may hand to an operation: the null record, or a
\* record on the default display with any context and surface handle
Records ==
  {NullRecord} \cup
  {Record(DefaultDisplay, c, w) : c \in {NULL} \cup Handles, w \in {NULL} \cup Handles}

Binding(d, dr, rd, c) == [dpy |-> d, draw |-> dr, read |-> rd, ctx |-> c]

\* no context current: GetCurrentContext, GetCurrentDisplay, GetCurrentSurface
\* answer EGL_NO_CONTEXT, EGL_NO_DISPLAY, EGL_NO_SURFACE
NoBinding == Binding(NULL, NULL, NULL, NULL)

\* the binding MakeContextCurrent(data) asks for: data.egl_wnd is both the
\* draw and the read surface
BindingOf(data) == Binding(data.dpy, data.wnd, data.wnd, data.ctx)

\* the entry points of the dispatch table with their isext flag, in the order
\* EGL_HOOKED_SYMBOLS then EGL_NONHOOKED_SYMBOLS expand LOAD_FUNC
Symbols ==
  << [name |-> "BindAPI",              isext |-> FALSE],
     [name |-> "GetProcAddress",       isext |-> FALSE],
     [name |-> "GetDisplay",           isext |-> FALSE],
     [name |-> "CreateContext",        isext |-> FALSE],
     [name |-> "DestroyContext",       isext |-> FALSE],
     [name |-> "CreateWindowSurface",  isext |-> FALSE],
     [name |-> "MakeCurrent",          isext |-> FALSE],
     [name |-> "SwapBuffers",          isext |-> FALSE],
     [name |-> "PostSubBufferNV",      isext |-> TRUE],
     [name |-> "ChooseConfig",         isext |-> FALSE],
     [name |-> "CreatePbufferSurface", isext |-> FALSE],
     [name |-> "DestroySurface",       isext |-> FALSE],
     [name |-> "GetCurrentContext",    isext |-> FALSE],
     [name |-> "GetCurrentDisplay",    isext |-> FALSE],
     [name |-> "GetCurrentSurface",    isext |-> FALSE],
     [name |-> "GetError",             isext |-> FALSE],
     [name |-> "Initialize",           isext |-> FALSE],
     [name |-> "QuerySurface",         isext |-> FALSE] >>

SymbolNames == {Symbols[i].name : i \in 1 .. Len(Symbols)}
Mandatory == {Symbols[i].name : i \in {j \in 1 .. Len(Symbols) : ~Symbols[j].isext}}
Optional == SymbolNames \ Mandatory

\* EGLDispatchTable EGL = {}: every entry point null
EmptyTable == [s \in SymbolNames |-> FALSE]

----------------------------------------------------------------------------
(* The machine an operation runs on: the table, the binding, what the      *)
(* operation has logged so far and whether it has faulted.                 *)

Machine(tbl, b) == [tbl |-> tbl, cur |-> b, log |-> <<>>, diag |-> <<>>, fault |-> FALSE]

Call(fn, args, res, b) == [fn |-> fn, args |-> args, res |-> res, cur |-> b]

\* EGL.fn(args): a fault when the entry point is null, otherwise the driver
\* answers res and the thread's binding becomes cur2
Invoke(m, fn, args, res, cur2) ==
  IF m.fault THEN m
  ELSE IF ~m.tbl[fn]
    THEN [m EXCEPT !.fault = TRUE,
                   !.log = Append(@, Call(fn, args, Faulted, m.cur))]
    ELSE [m EXCEPT !.log = Append(@, Call(fn, args, res, m.cur)),
                   !.cur = cur2]

\* RDCERR / RDCWARN
Emit(m, msg) == IF m.fault THEN m ELSE [m EXCEPT !.diag = Append(@, msg)]

Bool(b) == IF b THEN EGL_TRUE ELSE EGL_FALSE

----------------------------------------------------------------------------
(* The driver, as far as this file depends on it.  A driver is described   *)
(* by what it answers; the answers that vary between drivers and runs are  *)
(* inputs of the operations.                                               *)

EGL_READ == 12378
EGL_BAD_SURFACE == 12301
EGL_WIDTH == 12375
EGL_HEIGHT == 12374

\* drv.noDisplayRelease: the driver takes MakeCurrent(EGL_NO_DISPLAY, none,
\*   none, none) as a release (a vendor extension; EGL itself answers
\*   EGL_BAD_DISPLAY)
\* drv.surfaceless: the driver binds a context without surfaces
DriverKinds == [noDisplayRelease : BOOLEAN, surfaceless : BOOLEAN]

\* whether the driver performs MakeCurrent(b.dpy, b.draw, b.read, b.ctx)
MakeCurrentAccepted(b, drv) ==
  IF b.dpy = NULL
    THEN b.ctx = NULL /\ b.draw = NULL /\ b.read = NULL /\ drv.noDisplayRelease
  ELSE IF b.ctx = NULL
    THEN b.draw = NULL /\ b.read = NULL
  ELSE IF b.draw = NULL /\ b.read = NULL
    THEN drv.surfaceless
  ELSE b.draw # NULL /\ b.read # NULL

\* the binding after an accepted MakeCurrent: releasing leaves no display
\* current either
Bound(b) == IF b.ctx = NULL THEN NoBinding ELSE b

\* EGL.MakeCurrent(dpy, draw, read, ctx)
EglMakeCurrent(m, b, drv) ==
  LET ok == MakeCurrentAccepted(b, drv)
  IN  Invoke(m, "MakeCurrent", <<b.dpy, b.draw, b.read, b.ctx>>, Bool(ok),
             IF ok THEN Bound(b) ELSE m.cur)

\* the result of the last call the machine logged
LastRes(m) == m.log[Len(m.log)].res

----------------------------------------------------------------------------
(* EGLPlatform *)

\* bool MakeContextCurrent(GLWindowingData data): [m, ok]
MakeContextCurrent(m, data, drv) ==
  IF m.tbl["MakeCurrent"]
    THEN LET m1 == EglMakeCurrent(m, BindingOf(data), drv)
         IN  [m |-> m1, ok |-> (~m1.fault /\ LastRes(m1) = EGL_TRUE)]
    ELSE [m |-> m, ok |-> FALSE]

\* DeleteContext with the context destroyed only inside the surface branch
DeleteContextNested(m, context) ==
  IF context.wnd # NULL /\ m.tbl["DestroySurface"]
    THEN LET m1 == Invoke(m, "DestroySurface", <<context.dpy, context.wnd>>,
                          EGL_TRUE, m.cur)
         IN  IF context.ctx # NULL /\ m1.tbl["DestroyContext"]
               THEN Invoke(m1, "DestroyContext", <<context.dpy, context.ctx>>,
                           EGL_TRUE, m1.cur)
               ELSE m1
    ELSE m

\* void DeleteContext(GLWindowingData context)
DeleteContext(m, context) ==
  LET m1 == IF context.wnd # NULL /\ m.tbl["DestroySurface"]
              THEN Invoke(m, "DestroySurface", <<context.dpy, context.wnd>>,
                          EGL_TRUE, m.cur)
              ELSE m
  IN  IF context.ctx # NULL /\ m1.tbl["DestroyContext"]
        THEN Invoke(m1, "DestroyContext", <<context.dpy, context.ctx>>,
                    EGL_TRUE, m1.cur)
        ELSE m1

\* DeleteReplayContext that releases the binding after the two destroys
DeleteReplayContextReleaseLast(m, context, drv) ==
  IF m.tbl["DestroyContext"]
    THEN LET m1 == Invoke(m, "DestroySurface", <<context.dpy, context.wnd>>,
                          Bool(context.wnd # NULL), m.cur)
             m2 == Invoke(m1, "DestroyContext", <<context.dpy, context.ctx>>,
                          Bool(context.ctx # NULL), m1.cur)
         IN  EglMakeCurrent(m2, Binding(context.dpy, NULL, NULL, NULL), drv)
    ELSE m

\* void DeleteReplayContext(GLWindowingData context)
DeleteReplayContext(m, context, drv) ==
  IF m.tbl["DestroyContext"]
    THEN LET m1 == EglMakeCurrent(m, Binding(context.dpy, NULL, NULL, NULL), drv)
             m2 == Invoke(m1, "DestroySurface", <<context.dpy, context.wnd>>,
                          Bool(context.wnd # NULL), m1.cur)
         IN  Invoke(m2, "DestroyContext", <<context.dpy, context.ctx>>,
                    Bool(context.ctx # NULL), m2.cur)
    ELSE m

\* GetOutputWindowDimensions that queries the surface before it switches to
\* the target
GetOutputWindowDimensionsQueryFirst(m, context, drv, width_ok, height_ok) ==
  LET m1 == Invoke(m, "GetCurrentContext", <<>>, m.cur.ctx, m.cur)
      m2 == Invoke(m1, "GetCurrentDisplay", <<>>, m1.cur.dpy, m1.cur)
      m3 == Invoke(m2, "GetCurrentSurface", <<EGL_READ>>, m2.cur.read, m2.cur)
      oldContext == Record(m.cur.dpy, m.cur.ctx, m.cur.read)
      w_ok == context.wnd # NULL /\ width_ok
      h_ok == context.wnd # NULL /\ height_ok
      m4 == Invoke(m3, "QuerySurface", <<context.dpy, context.wnd, EGL_WIDTH>>,
                   Bool(w_ok), m3.cur)
      m5 == Invoke(m4, "QuerySurface", <<context.dpy, context.wnd, EGL_HEIGHT>>,
                   Bool(h_ok), m4.cur)
      m6 == MakeContextCurrent(m5, context, drv).m
      m7 == IF ~w_ok \/ ~h_ok
              THEN Emit(Invoke(m6, "GetError", <<>>, EGL_BAD_SURFACE, m6.cur),
                        "Unable to query the surface size")
              ELSE m6
  IN  MakeContextCurrent(m7, oldContext, drv).m

\* void GetOutputWindowDimensions(GLWindowingData context, int32_t &w, int32_t &h)
\* width_ok, height_ok: what the driver answers the two surface queries
GetOutputWindowDimensions(m, context, drv, width_ok, height_ok) ==
  LET m1 == Invoke(m, "GetCurrentContext", <<>>, m.cur.ctx, m.cur)
      m2 == Invoke(m1, "GetCurrentDisplay", <<>>, m1.cur.dpy, m1.cur)
      m3 == Invoke(m2, "GetCurrentSurface", <<EGL_READ>>, m2.cur.read, m2.cur)
      oldContext == Record(m.cur.dpy, m.cur.ctx, m.cur.read)
      m4 == MakeContextCurrent(m3, context, drv).m
      w_ok == context.wnd # NULL /\ width_ok
      h_ok == context.wnd # NULL /\ height_ok
      m5 == Invoke(m4, "QuerySurface", <<context.dpy, context.wnd, EGL_WIDTH>>,
                   Bool(w_ok), m4.cur)
      m6 == Invoke(m5, "QuerySurface", <<context.dpy, context.wnd, EGL_HEIGHT>>,
                   Bool(h_ok), m5.cur)
      m7 == IF ~w_ok \/ ~h_ok
              THEN Emit(Invoke(m6, "GetError", <<>>, EGL_BAD_SURFACE, m6.cur),
                        "Unable to query the surface size")
              ELSE m6
  IN  MakeContextCurrent(m7, oldContext, drv).m

----------------------------------------------------------------------------
(* Context creation *)

\* versions[] of CreateWindowingData
versions == << [major |-> 3, minor |-> 2],
               [major |-> 3, minor |-> 1],
               [major |-> 3, minor |-> 0] >>

\* the requests one creation can issue: the versioned ones, then baseAttribs
Requests == 1 .. Len(versions) + 1

\* what ChooseConfig answers: failure, success with no matching configuration
\* (numConfigs = 0, config left unwritten), success with one
ChooseAnswers == {"fail", "none", "one"}

\* a configuration token: ValidConfig is one the driver chose, NULL stands
\* for any value that is no configuration of the display
ValidConfig == 1
Configs == {NULL, ValidConfig}

\* what the driver answers one creation: drv.choose, drv.garbage (the value
\* the unwritten config holds), drv.accept (which requests it would accept),
\* drv.ctx (the context handle it hands out), drv.surface (the surface handle
\* it hands out, NULL when surface creation fails)
AllCreationAnswers ==
  [choose : ChooseAnswers, garbage : Configs, accept : [Requests -> BOOLEAN],
   ctx : Handles, surface : {NULL} \cup Handles]

RejectAll == [r \in Requests |-> FALSE]

\* the driver that finds no configuration at all
NoConfigAnswer ==
  [choose |-> "fail", garbage |-> NULL, accept |-> RejectAll, ctx |-> 1,
   surface |-> NULL]

\* the answers that differ in something the creation can observe: an answer
\* that is never asked for (the garbage when a config is written, the
\* requests when there is no valid config, the handles when every request is
\* rejected) is fixed
CreationAnswers ==
  {a \in AllCreationAnswers :
     /\ a.choose = "fail" => a = NoConfigAnswer
     /\ a.choose = "one" => a.garbage = NULL
     /\ (a.choose = "none" /\ a.garbage = NULL) => a.accept = RejectAll
     /\ a.accept = RejectAll => (a.ctx = 1 /\ a.surface = NULL)}

\* VersionLadder without the break after an accepted request: the loop goes
\* on down the ladder and keeps the last context it was given
RECURSIVE VersionLadderNoBreak(_, _, _, _, _, _)
VersionLadderNoBreak(m, v, eglDisplay, config, share_ctx, drv) ==
  IF v > Len(versions) THEN [m |-> m, ctx |-> NULL]
  ELSE
    LET got == IF config = ValidConfig /\ drv.accept[v] THEN drv.ctx ELSE NULL
        m1 == Invoke(m, "CreateContext",
                     <<eglDisplay, config, share_ctx, VersionedRequest,
                       versions[v].major, versions[v].minor>>,
                     got, m.cur)
        rest == VersionLadderNoBreak(m1, v + 1, eglDisplay, config, share_ctx, drv)
    IN  IF m1.fault THEN [m |-> m1, ctx |-> NULL]
        ELSE [m |-> rest.m, ctx |-> IF rest.ctx # NULL THEN rest.ctx ELSE got]

\* the for loop over versions[], from index v: [m, ctx]
RECURSIVE VersionLadder(_, _, _, _, _, _)
VersionLadder(m, v, eglDisplay, config, share_ctx, drv) ==
  IF v > Len(versions) THEN [m |-> m, ctx |-> NULL]
  ELSE
    LET got == IF config = ValidConfig /\ drv.accept[v] THEN drv.ctx ELSE NULL
        m1 == Invoke(m, "CreateContext",
                     <<eglDisplay, config, share_ctx, VersionedRequest,
                       versions[v].major, versions[v].minor>>,
                     got, m.cur)
    IN  IF m1.fault THEN [m |-> m1, ctx |-> NULL]
        ELSE IF got # NULL THEN [m |-> m1, ctx |-> got]
        ELSE VersionLadder(m1, v + 1, eglDisplay, config, share_ctx, drv)

\* LegacyRequestStep without the if(!ctx): the legacy request is issued
\* whatever the ladder gave
LegacyRequestAlways(l, eglDisplay, config, share_ctx, drv) ==
  LET got == IF config = ValidConfig /\ drv.accept[Len(versions) + 1]
               THEN drv.ctx ELSE NULL
      m1 == Invoke(l.m, "CreateContext",
                   <<eglDisplay, config, share_ctx, LegacyRequest, 3, 0>>,
                   got, l.m.cur)
  IN  [m |-> m1, ctx |-> IF m1.fault THEN NULL ELSE IF got # NULL THEN got ELSE l.ctx]

\* if(!ctx) ctx = EGL.CreateContext(eglDisplay, config, share_ctx, baseAttribs)
LegacyRequestStep(l, eglDisplay, config, share_ctx, drv) ==
  IF l.ctx = NULL
    THEN LET got == IF config = ValidConfig /\ drv.accept[Len(versions) + 1]
                      THEN drv.ctx ELSE NULL
             m1 == Invoke(l.m, "CreateContext",
                          <<eglDisplay, config, share_ctx, LegacyRequest, 3, 0>>,
                          got, l.m.cur)
         IN  [m |-> m1, ctx |-> IF m1.fault THEN NULL ELSE got]
    ELSE l

\* the surface for the created context: [m, surface]
CreateSurface(m, eglDisplay, config, window, drv) ==
  IF window # NULL
    THEN LET m1 == Invoke(m, "CreateWindowSurface", <<eglDisplay, config, window>>,
                          drv.surface, m.cur)
         IN  [m |-> IF drv.surface = NULL
                      THEN Emit(m1, "Couldn't create surface for window") ELSE m1,
              surface |-> drv.surface]
    ELSE LET m1 == Invoke(m, "CreatePbufferSurface",
                          <<eglDisplay, config, PbufferSize, PbufferSize>>,
                          drv.surface, m.cur)
         IN  [m |-> IF drv.surface = NULL
                      THEN Emit(m1, "Couldn't create a suitable PBuffer") ELSE m1,
              surface |-> drv.surface]

\* Created that gives up the context when there is no surface
CreatedAllOrNothing(eglDisplay, ctx, surface) ==
  IF surface = NULL THEN Record(eglDisplay, NULL, NULL)
  ELSE Record(eglDisplay, ctx, surface)

\* Created without the assignment ret.egl_ctx = ctx
CreatedWithoutContext(eglDisplay, ctx, surface) == Record(eglDisplay, NULL, surface)

\* ret.egl_ctx = ctx; ret.egl_wnd = surface; return ret;
Created(eglDisplay, ctx, surface) == Record(eglDisplay, ctx, surface)

\* CreateWindowingData without the return on ctx == NULL: the surface is
\* created whatever the context requests gave
CreateWindowingDataNoContextCheck(m, eglDisplay, share_ctx, window, drv) ==
  LET surfaceType == IF window = NULL THEN EGL_PBUFFER_BIT ELSE EGL_WINDOW_BIT
      chosen == eglDisplay # NULL /\ drv.choose # "fail"
      numConfigs == IF eglDisplay # NULL /\ drv.choose = "one" THEN 1 ELSE 0
      m1 == Invoke(m, "ChooseConfig", <<eglDisplay, surfaceType, numConfigs>>,
                   Bool(chosen), m.cur)
      config == IF numConfigs = 1 THEN ValidConfig ELSE drv.garbage
      l == LegacyRequestStep(VersionLadder(m1, 1, eglDisplay, config, share_ctx, drv),
                             eglDisplay, config, share_ctx, drv)
      s == CreateSurface(l.m, eglDisplay, config, window, drv)
  IN  IF ~chosen
        THEN [m |-> Emit(m1, "Couldn't find a suitable EGL config"),
              ret |-> Record(eglDisplay, NULL, NULL)]
      ELSE [m |-> s.m, ret |-> Created(eglDisplay, l.ctx, s.surface)]

\* GLWindowingData CreateWindowingData(EGLDisplay eglDisplay, EGLContext share_ctx,
\*                                     EGLNativeWindowType window): [m, ret]
CreateWindowingData(m, eglDisplay, share_ctx, window, drv) ==
  LET surfaceType == IF window = NULL THEN EGL_PBUFFER_BIT ELSE EGL_WINDOW_BIT
      chosen == eglDisplay # NULL /\ drv.choose # "fail"
      numConfigs == IF eglDisplay # NULL /\ drv.choose = "one" THEN 1 ELSE 0
      m1 == Invoke(m, "ChooseConfig", <<eglDisplay, surfaceType, numConfigs>>,
                   Bool(chosen), m.cur)
      config == IF numConfigs = 1 THEN ValidConfig ELSE drv.garbage
      l == LegacyRequestStep(VersionLadder(m1, 1, eglDisplay, config, share_ctx, drv),
                             eglDisplay, config, share_ctx, drv)
      s == CreateSurface(l.m, eglDisplay, config, window, drv)
  IN  IF ~chosen
        THEN [m |-> Emit(m1, "Couldn't find a suitable EGL config"),
              ret |-> Record(eglDisplay, NULL, NULL)]
      ELSE IF l.ctx = NULL
        THEN [m |-> Emit(l.m, "Couldn't create GL ES context"),
              ret |-> Record(eglDisplay, NULL, NULL)]
      ELSE [m |-> s.m, ret |-> Created(eglDisplay, l.ctx, s.surface)]

\* GLWindowingData MakeContext(GLWindowingData share): [m, ret]
MakeContext(m, share, drv) ==
  IF m.tbl["CreateContext"] /\ m.tbl["ChooseConfig"] /\ m.tbl["CreatePbufferSurface"]
    THEN CreateWindowingData(m, share.dpy, share.ctx, NULL, drv)
    ELSE [m |-> m, ret |-> NullRecord]

\* the windowing systems of WindowingData.system this file names
WindowingSystems == {"Unknown", "Win32", "Android", "Xlib"}

\* the platform the file is built for: RDOC_WIN32, RDOC_ANDROID or RDOC_LINUX
BuildPlatform == "RDOC_LINUX"

\* the case the #if chain of MakeOutputWindow compiles in
PlatformSystem ==
  IF BuildPlatform = "RDOC_WIN32" THEN "Win32"
  ELSE IF BuildPlatform = "RDOC_ANDROID" THEN "Android"
  ELSE "Xlib"

\* a native window handle: none or the one window of the model
NativeWindow == 1
Windows == [system : WindowingSystems, window : {NULL, NativeWindow}]

\* MakeOutputWindow that takes the window handle whatever the system tag is
MakeOutputWindowAnyTag(m, window, share_context, display, drv) ==
  LET win == window.window
      m0 == IF window.system \in {PlatformSystem, "Unknown"}
              THEN m ELSE Emit(m, "Unexpected window system")
      m1 == Invoke(m0, "GetDisplay", <<>>, display, m0.cur)
      m2 == IF display = NULL THEN Emit(m1, "Assertion failed: eglDisplay") ELSE m1
  IN  CreateWindowingData(m2, display, share_context.ctx, win, drv)

\* MakeOutputWindow without the case for WindowingSystem::Unknown: the tag
\* falls to the default branch
MakeOutputWindowUnknownIsError(m, window, share_context, display, drv) ==
  LET win == IF window.system = PlatformSystem THEN window.window ELSE NULL
      m0 == IF window.system = PlatformSystem
              THEN m ELSE Emit(m, "Unexpected window system")
      m1 == Invoke(m0, "GetDisplay", <<>>, display, m0.cur)
      m2 == IF display = NULL THEN Emit(m1, "Assertion failed: eglDisplay") ELSE m1
  IN  CreateWindowingData(m2, display, share_context.ctx, win, drv)

\* GLWindowingData MakeOutputWindow(WindowingData window, bool depth,
\*                                  GLWindowingData share_context): [m, ret]
\* display: what GetDisplay(EGL_DEFAULT_DISPLAY) answers
MakeOutputWindow(m, window, share_context, display, drv) ==
  LET win == IF window.system = PlatformSystem THEN window.window ELSE NULL
      m0 == IF window.system \in {PlatformSystem, "Unknown"}
              THEN m ELSE Emit(m, "Unexpected window system")
      m1 == Invoke(m0, "GetDisplay", <<>>, display, m0.cur)
      m2 == IF display = NULL THEN Emit(m1, "Assertion failed: eglDisplay") ELSE m1
  IN  CreateWindowingData(m2, display, share_context.ctx, win, drv)

\* InitialiseAPI without the check of the record MakeContext returned
InitialiseAPINoCheck(m, replayContext, display, initialized, drv) ==
  LET m1 == Invoke(m, "BindAPI", <<>>, EGL_TRUE, m.cur)
      m2 == Invoke(m1, "GetDisplay", <<>>, display, m1.cur)
      m3 == Invoke(m2, "Initialize", <<display>>, Bool(initialized), m2.cur)
      made == MakeContext(m3, Record(display, NULL, NULL),
                          IF initialized THEN drv ELSE [drv EXCEPT !.choose = "fail"])
  IN  IF display = NULL
        THEN [m |-> Emit(m2, "Couldn't open default EGL display"),
              ret |-> replayContext, status |-> "APIInitFailed"]
      ELSE [m |-> made.m, ret |-> made.ret, status |-> "Succeeded"]

\* InitialiseAPI that erases an unusable record without DeleteContext
InitialiseAPIEraseOnly(m, replayContext, display, initialized, drv) ==
  LET m1 == Invoke(m, "BindAPI", <<>>, EGL_TRUE, m.cur)
      m2 == Invoke(m1, "GetDisplay", <<>>, display, m1.cur)
      m3 == Invoke(m2, "Initialize", <<display>>, Bool(initialized), m2.cur)
      made == MakeContext(m3, Record(display, NULL, NULL),
                          IF initialized THEN drv ELSE [drv EXCEPT !.choose = "fail"])
  IN  IF display = NULL
        THEN [m |-> Emit(m2, "Couldn't open default EGL display"),
              ret |-> replayContext, status |-> "APIInitFailed"]
      ELSE IF made.ret.ctx = NULL \/ made.ret.wnd = NULL
        THEN [m |-> Emit(made.m, "Couldn't create OpenGL ES 3.x replay context - required for replay"),
              ret |-> NullRecord, status |-> "APIHardwareUnsupported"]
      ELSE [m |-> made.m, ret |-> made.ret, status |-> "Succeeded"]

\* ReplayStatus InitialiseAPI(GLWindowingData &replayContext): [m, ret, status]
\* display: what GetDisplay answers; initialized: what Initialize answers
InitialiseAPI(m, replayContext, display, initialized, drv) ==
  LET m1 == Invoke(m, "BindAPI", <<>>, EGL_TRUE, m.cur)
      m2 == Invoke(m1, "GetDisplay", <<>>, display, m1.cur)
      m3 == Invoke(m2, "Initialize", <<display>>, Bool(initialized), m2.cur)
      base == Record(display, NULL, NULL)
      made == MakeContext(m3, base,
                          IF initialized THEN drv ELSE [drv EXCEPT !.choose = "fail"])
  IN  IF display = NULL
        THEN [m |-> Emit(m2, "Couldn't open default EGL display"),
              ret |-> replayContext, status |-> "APIInitFailed"]
      ELSE IF made.ret.ctx = NULL \/ made.ret.wnd = NULL
        THEN [m |-> DeleteContext(
                      Emit(made.m, "Couldn't create OpenGL ES 3.x replay context - required for replay"),
                      made.ret),
              ret |-> NullRecord, status |-> "APIHardwareUnsupported"]
      ELSE [m |-> made.m, ret |-> made.ret, status |-> "Succeeded"]

----------------------------------------------------------------------------
(* Symbol resolution *)

\* Process::LoadModule, Process::GetFunctionAddress: loader calls, which do
\* not go through the dispatch table
Loader(m, fn, args, res) ==
  IF m.fault THEN m ELSE [m EXCEPT !.log = Append(@, Call(fn, args, res, m.cur))]

\* the module names GetEGLHandle tries, in order: libEGL.so, libEGL.so.1
\* (the one plugin path of the RDOC_WIN32 build)
Candidates == IF BuildPlatform = "RDOC_WIN32" THEN 1 .. 1 ELSE 1 .. 2

\* what the loader answers GetEGLHandle: loads[c], candidate c can be loaded
\* (the candidates after the first one that loads are never asked for)
LoadAnswers ==
  {l \in [Candidates -> BOOLEAN] :
     \A c \in Candidates, d \in Candidates : (l[c] /\ d > c) => ~l[d]}

\* static void *GetEGLHandle(): [m, handle]
RECURSIVE GetEGLHandleFrom(_, _, _)
GetEGLHandleFrom(m, c, loads) ==
  IF c \notin Candidates THEN [m |-> m, handle |-> NULL]
  ELSE LET m1 == Loader(m, "LoadModule", <<c>>, IF loads[c] THEN c ELSE NULL)
       IN  IF loads[c] THEN [m |-> m1, handle |-> c]
           ELSE GetEGLHandleFrom(m1, c + 1, loads)

GetEGLHandle(m, loads) == GetEGLHandleFrom(m, 1, loads)

\* LOAD_FUNC without the two CheckConstParam(isext) tests: every symbol the
\* module does not export is asked of GetProcAddress and is required
LOAD_FUNC_IgnoringIsExt(st, i, handle, exports, viaProc) ==
  LET func == Symbols[i].name
      m0 == st.m
      m1 == IF ~m0.tbl[func]
              THEN [Loader(m0, "GetFunctionAddress", <<handle, i>>, Bool(func \in exports))
                      EXCEPT !.tbl[func] = func \in exports]
              ELSE m0
      m2 == IF ~m1.tbl[func]
              THEN LET m3 == Invoke(m1, "GetProcAddress", <<i>>, Bool(func \in viaProc), m1.cur)
                   IN  IF m3.fault THEN m3 ELSE [m3 EXCEPT !.tbl[func] = func \in viaProc]
              ELSE m1
  IN  IF m2.fault THEN [m |-> m2, ok |-> st.ok]
      ELSE IF ~m2.tbl[func]
        THEN [m |-> Emit(m2, "Unable to load '" \o func \o "'"), ok |-> FALSE]
      ELSE [m |-> m2, ok |-> st.ok]

\* LOAD_FUNC(func, isext) for Symbols[i]: [m, ok]
\* exports: the names the module exports; viaProc: the names the driver's
\* GetProcAddress answers
LOAD_FUNC(st, i, handle, exports, viaProc) ==
  LET func == Symbols[i].name
      isext == Symbols[i].isext
      m0 == st.m
      m1 == IF ~m0.tbl[func]
              THEN [Loader(m0, "GetFunctionAddress", <<handle, i>>, Bool(func \in exports))
                      EXCEPT !.tbl[func] = func \in exports]
              ELSE m0
      m2 == IF ~m1.tbl[func] /\ isext
              THEN LET m3 == Invoke(m1, "GetProcAddress", <<i>>, Bool(func \in viaProc), m1.cur)
                   IN  IF m3.fault THEN m3 ELSE [m3 EXCEPT !.tbl[func] = func \in viaProc]
              ELSE m1
  IN  IF m2.fault THEN [m |-> m2, ok |-> st.ok]
      ELSE IF ~m2.tbl[func] /\ ~isext
        THEN [m |-> Emit(m2, "Unable to load '" \o func \o "'"), ok |-> FALSE]
      ELSE [m |-> m2, ok |-> st.ok]

\* EGL_HOOKED_SYMBOLS(LOAD_FUNC) EGL_NONHOOKED_SYMBOLS(LOAD_FUNC), from Symbols[i]
RECURSIVE LoadSymbols(_, _, _, _, _)
LoadSymbols(st, i, handle, exports, viaProc) ==
  IF i > Len(Symbols) \/ st.m.fault THEN st
  ELSE LoadSymbols(LOAD_FUNC(st, i, handle, exports, viaProc), i + 1,
                   handle, exports, viaProc)

\* bool EGLDispatchTable::PopulateForReplay(): [m, ok]
PopulateForReplay(m, loads, exports, viaProc) ==
  LET h == GetEGLHandle(m, loads)
  IN  IF h.handle = NULL
        THEN [m |-> Emit(h.m, "Can't load libEGL"), ok |-> FALSE]
        ELSE LoadSymbols([m |-> h.m, ok |-> TRUE], 1, h.handle, exports, viaProc)

\* what a symbol lookup answers: null or one of two addresses
ProcAddresses == 0 .. 2

\* GetReplayFunction that asks the module first and the driver's
\* GetProcAddress only when the module has no such symbol
GetReplayFunctionDirectFirst(m, viaProc, loads, direct) ==
  LET h == GetEGLHandle(m, loads)
      m1 == Loader(h.m, "GetFunctionAddress", <<h.handle>>, direct)
  IN  IF direct # NULL THEN [m |-> m1, ret |-> direct]
      ELSE [m |-> Invoke(m1, "GetProcAddress", <<>>, viaProc, m1.cur),
            ret |-> viaProc]

\* void *GetReplayFunction(const char *funcname): [m, ret]
\* viaProc: what EGL.GetProcAddress answers; direct: what GetFunctionAddress does
GetReplayFunction(m, viaProc, loads, direct) ==
  LET m1 == Invoke(m, "GetProcAddress", <<>>, viaProc, m.cur)
      h == GetEGLHandle(m1, loads)
  IN  IF viaProc # NULL THEN [m |-> m1, ret |-> viaProc]
      ELSE [m |-> Loader(h.m, "GetFunctionAddress", <<h.handle>>, direct),
            ret |-> direct]

----------------------------------------------------------------------------
(* The state machine: the caller runs one operation at a time on one thread *)

NoWindow == [system |-> "Unknown", window |-> NULL]

Args(rec, window) == [rec |-> rec, window |-> window]

Ret(rec, status, ok, ptr) == [rec |-> rec, status |-> status, ok |-> ok, ptr |-> ptr]

NoRet == Ret(NullRecord, "", FALSE, NULL)

\* the records of a context to share with: none, or a complete one
ShareRecords == {r \in Records : (r.ctx = NULL) = (r.wnd = NULL)}

\* the bindings other code on the thread can have made current
Bindings ==
  {NoBinding} \cup
  {Binding(DefaultDisplay, dr, rd, c) : dr \in Handles, rd \in Handles, c \in Handles}

\* the subsets of S with at most k elements
RECURSIVE UpTo(_, _)
UpTo(S, k) ==
  IF k = 0 THEN {{}}
  ELSE LET smaller == UpTo(S, k - 1)
       IN  smaller \cup {t \cup {x} : t \in smaller, x \in S}

\* the sets of names a driver module can export: all of them but at most
\* MaxMissing mandatory ones and any of the optional ones
ExportSets ==
  {SymbolNames \ (gone \cup opt) : gone \in UpTo(Mandatory, MaxMissing),
                                  opt \in SUBSET Optional}

\* the driver modules with a single gap: every name exported, or every name
\* but one.  The context operations test and call each entry point on its
\* own, so a table with one null entry at a time (or, before population, all
\* of them) takes them through every guard and every fault.
GapExports == {SymbolNames} \cup {SymbolNames \ {s} : s \in SymbolNames}

Init ==
  /\ EGL = EmptyTable
  /\ cur = NoBinding
  /\ pc = "idle"
  /\ op = "none"
  /\ arg = Args(NullRecord, NoWindow)
  /\ entry = NoBinding
  /\ log = <<>>
  /\ diag = <<>>
  /\ ret = NoRet
  /\ opened = FALSE
  /\ populated = "never"

\* the machine has loaded the driver module
Acquired(m) ==
  \E i \in 1 .. Len(m.log) : m.log[i].fn = "LoadModule" /\ m.log[i].res # NULL

\* operation name(a) ran on machine m to its end and returned r
Finish(name, a, m, r) ==
  /\ pc' = IF m.fault THEN "crashed" ELSE "returned"
  /\ op' = name
  /\ arg' = a
  /\ entry' = cur
  /\ EGL' = m.tbl
  /\ cur' = m.cur
  /\ log' = m.log
  /\ diag' = m.diag
  /\ ret' = IF m.fault THEN NoRet ELSE r
  /\ opened' = (opened \/ Acquired(m))
  /\ populated' = IF name # "PopulateForReplay" \/ m.fault THEN populated
                  ELSE IF r.ok \/ populated = "succeeded" THEN "succeeded"
                  ELSE "failed"

Start == Machine(EGL, cur)

DoMakeContextCurrent ==
  /\ pc = "idle"
  /\ \E data \in Records, drv \in DriverKinds :
       LET r == MakeContextCurrent(Start, data, drv)
       IN  Finish("MakeContextCurrent", Args(data, NoWindow), r.m,
                  Ret(NullRecord, "", r.ok, NULL))

DoMakeContext ==
  /\ pc = "idle"
  /\ \E share \in ShareRecords, drv \in CreationAnswers :
       LET r == MakeContext(Start, share, drv)
       IN  Finish("MakeContext", Args(share, NoWindow), r.m,
                  Ret(r.ret, "", FALSE, NULL))

DoMakeOutputWindow ==
  /\ pc = "idle"
  /\ \E window \in Windows, share \in ShareRecords, display \in Displays :
       \E drv \in IF display = NULL THEN {NoConfigAnswer} ELSE CreationAnswers :
         LET r == MakeOutputWindow(Start, window, share, display, drv)
         IN  Finish("MakeOutputWindow", Args(share, window), r.m,
                    Ret(r.ret, "", FALSE, NULL))

DoInitialiseAPI ==
  /\ pc = "idle"
  /\ \E replayContext \in ShareRecords, display \in Displays, initialized \in BOOLEAN :
       \E drv \in IF display = NULL \/ ~initialized
                    THEN {NoConfigAnswer} ELSE CreationAnswers :
         LET r == InitialiseAPI(Start, replayContext, display, initialized, drv)
         IN  Finish("InitialiseAPI", Args(replayContext, NoWindow), r.m,
                    Ret(r.ret, r.status, FALSE, NULL))

DoDeleteContext ==
  /\ pc = "idle"
  /\ \E context \in Records :
       Finish("DeleteContext", Args(context, NoWindow),
              DeleteContext(Start, context), NoRet)

DoDeleteReplayContext ==
  /\ pc = "idle"
  /\ \E context \in Records, drv \in DriverKinds :
       Finish("DeleteReplayContext", Args(context, NoWindow),
              DeleteReplayContext(Start, context, drv), NoRet)

DoGetOutputWindowDimensions ==
  /\ pc = "idle"
  /\ \E context \in Records, drv \in DriverKinds, width_ok \in BOOLEAN,
        height_ok \in BOOLEAN :
       Finish("GetOutputWindowDimensions", Args(context, NoWindow),
              GetOutputWindowDimensions(Start, context, drv, width_ok, height_ok),
              NoRet)

\* PopulateForReplay against a driver module whose exports are one of exportSets
DoPopulateForReplay(exportSets) ==
  /\ pc = "idle"
  /\ \E loads \in LoadAnswers, exports \in exportSets :
       \E viaProc \in IF Optional \subseteq exports THEN {{}} ELSE SUBSET Optional :
         LET r == PopulateForReplay(Start, loads, exports, viaProc)
         IN  Finish("PopulateForReplay", Args(NullRecord, NoWindow), r.m,
                    Ret(NullRecord, "", r.ok, NULL))

DoGetReplayFunction ==
  /\ pc = "idle"
  /\ \E viaProc \in ProcAddresses, loads \in LoadAnswers, direct \in ProcAddresses :
       LET r == GetReplayFunction(Start, viaProc, loads, direct)
       IN  Finish("GetReplayFunction", Args(NullRecord, NoWindow), r.m,
                  Ret(NullRecord, "", FALSE, r.ret))

\* other code of the process makes a binding current on the thread through
\* the global table (EGL.MakeCurrent with its own draw and read surfaces)
HostMakeCurrent ==
  /\ pc = "idle"
  /\ EGL["MakeCurrent"]
  /\ \E b \in Bindings :
       Finish("HostMakeCurrent", Args(NullRecord, NoWindow),
              EglMakeCurrent(Start, b, [noDisplayRelease |-> FALSE, surfaceless |-> FALSE]),
              NoRet)

\* the caller has taken the result; the thread is ready for the next call
Return ==
  /\ pc = "returned"
  /\ pc' = "idle"
  /\ op' = "none"
  /\ arg' = Args(NullRecord, NoWindow)
  /\ entry' = NoBinding
  /\ log' = <<>>
  /\ diag' = <<>>
  /\ ret' = NoRet
  /\ UNCHANGED <<EGL, cur, opened, populated>>

\* context creation: it neither reads nor changes the thread's binding
NextCreate ==
  \/ DoPopulateForReplay(GapExports)
  \/ DoMakeContext
  \/ DoMakeOutputWindow
  \/ DoInitialiseAPI
  \/ Return

\* the operations on the thread's binding and on existing records
NextBinding ==
  \/ DoPopulateForReplay(GapExports)
  \/ DoMakeContextCurrent
  \/ DoDeleteContext
  \/ DoDeleteReplayContext
  \/ DoGetOutputWindowDimensions
  \/ HostMakeCurrent
  \/ Return

\* symbol resolution, against driver modules missing up to MaxMissing names
NextPopulate ==
  \/ DoPopulateForReplay(ExportSets)
  \/ DoGetReplayFunction
  \/ Return

Next == NextCreate \/ NextBinding \/ NextPopulate

Spec == Init /\ [][Next]_vars

SpecCreate == Init /\ [][NextCreate]_vars

SpecBinding == Init /\ [][NextBinding]_vars

SpecPopulate == Init /\ [][NextPopulate]_vars

----------------------------------------------------------------------------
(* Properties *)

\* the operation has run to its end (or to a fault)
Ended == pc \in {"returned", "crashed"}

\* the calls of the log through entry point fn, in order
CallsTo(fn) == SelectSeq(log, LAMBDA c : c.fn = fn)

\* the context-creation requests of the log, in order
Requested == CallsTo("CreateContext")

\* the surface-creation calls of the log
SurfaceCalls ==
  SelectSeq(log, LAMBDA c : c.fn \in {"CreateWindowSurface", "CreatePbufferSurface"})

\* request c has the versioned shape for versions[v]
IsTier(c, v) ==
  /\ c.args[4] = VersionedRequest
  /\ c.args[5] = versions[v].major
  /\ c.args[6] = versions[v].minor

IsLegacy(c) == c.args[4] = LegacyRequest

Accepted(c) == c.res \in Handles

Rejected(c) == c.res = NULL

\* the operations that return the record CreateWindowingData built
Creates == op \in {"MakeContext", "MakeOutputWindow"}

\* C1: creation requests the tiers 3.2, 3.1, 3.0 in this order and stops at
\* the first one the driver accepts: the k-th request (k <= 3) is the k-th
\* tier, every request before another one was rejected (nothing is requested
\* after an acceptance, a lower tier or the legacy form), and the record
\* returned holds the context of the accepted request; a driver that rejects
\* 3.2 and accepts 3.1 gets exactly these two requests.
C1_LadderOrder ==
  Ended =>
    /\ \A k \in 1 .. Len(Requested) :
         /\ k <= Len(versions) => IsTier(Requested[k], k)
         /\ k < Len(Requested) => Rejected(Requested[k])
    /\ \A k \in 1 .. Len(Requested) :
         (pc = "returned" /\ Creates /\ Accepted(Requested[k]))
           => ret.rec.ctx = Requested[k].res
    /\ (Len(Requested) >= 2 /\ Accepted(Requested[2]))
         => (Len(Requested) = 2 /\ \A k \in 1 .. 2 : ~IsLegacy(Requested[k]))

\* a creation in which the driver rejected 3.2, accepted 3.1 and the record
\* returned holds that context
C1_Witness ==
  /\ pc = "returned" /\ op = "MakeOutputWindow"
  /\ Len(Requested) = 2
  /\ IsTier(Requested[1], 1) /\ Rejected(Requested[1])
  /\ IsTier(Requested[2], 2) /\ Accepted(Requested[2])
  /\ ret.rec.ctx = Requested[2].res

\* C2: the legacy request is issued when, and only when, the three versioned
\* requests were all rejected, and then once, as the fourth request; when it
\* is rejected too no further context or surface creation call is issued and
\* the record returned has no context; one creation issues at most four
\* CreateContext calls.
C2_LegacyOnce ==
  Ended =>
    /\ Len(Requested) <= Len(versions) + 1
    /\ \A k \in 1 .. Len(Requested) :
         IsLegacy(Requested[k]) <=>
           (k = Len(versions) + 1 /\ \A j \in 1 .. Len(versions) : Rejected(Requested[j]))
    /\ ~(Len(Requested) = Len(versions) /\ Rejected(Requested[Len(versions)]))
    /\ (Len(Requested) = Len(versions) + 1 /\ Rejected(Requested[Len(versions) + 1]))
         => /\ Len(SurfaceCalls) = 0
            /\ log[Len(log)] = Requested[Len(versions) + 1]
            /\ (pc = "returned" /\ Creates) => (ret.rec.ctx = NULL /\ ret.rec.wnd = NULL)
            /\ "Couldn't create GL ES context" \in {diag[i] : i \in 1 .. Len(diag)}

\* a creation that issued the legacy request after three rejections, had it
\* rejected too and returned a record without context and surface
C2_Witness ==
  /\ pc = "returned" /\ op = "MakeContext"
  /\ Len(Requested) = Len(versions) + 1
  /\ \A k \in 1 .. Len(Requested) : Rejected(Requested[k])
  /\ IsLegacy(Requested[Len(versions) + 1])
  /\ ret.rec.ctx = NULL /\ ret.rec.wnd = NULL

\* the diagnostics emitted
Diagnostics == {diag[i] : i \in 1 .. Len(diag)}

\* C3 (as claimed): after GetOutputWindowDimensions returns, the thread's
\* binding (display, draw surface, read surface, context) is the one that was
\* current on entry.  Stated for the runs in which the driver performed
\* every MakeCurrent the operation asked for, which the claim covers.
C3_RestoresBinding ==
  (/\ pc = "returned" /\ op = "GetOutputWindowDimensions"
   /\ \A i \in 1 .. Len(log) : log[i].fn = "MakeCurrent" => log[i].res = EGL_TRUE)
    => cur = entry

\* C4 (as claimed): every record creation returns has context and surface
\* both null or both non-null.
C4_BothOrNeither ==
  (pc = "returned" /\ Creates) => ((ret.rec.ctx = NULL) <=> (ret.rec.wnd = NULL))

\* C4 (amended): every record creation returns has context and surface both
\* null, both non-null, or, only when the driver rejected the one surface
\* creation call, a context without a surface; it never has a surface
\* without a context.
C4_BothNeitherOrPartial ==
  (pc = "returned" /\ Creates) =>
    \/ ret.rec.ctx = NULL /\ ret.rec.wnd = NULL
    \/ ret.rec.ctx # NULL /\ ret.rec.wnd # NULL
    \/ /\ ret.rec.ctx # NULL /\ ret.rec.wnd = NULL
       /\ Len(SurfaceCalls) = 1 /\ Rejected(SurfaceCalls[1])
       /\ Diagnostics \cap {"Couldn't create surface for window",
                            "Couldn't create a suitable PBuffer"} # {}

\* a creation that returned a context without a surface
C4_Witness ==
  /\ pc = "returned" /\ op = "MakeContext"
  /\ ret.rec.ctx # NULL /\ ret.rec.wnd = NULL
  /\ Len(SurfaceCalls) = 1

\* C5: when the driver rejected the three versioned requests and the legacy
\* request, the record creation returns has neither context nor surface, and
\* InitialiseAPI returns APIHardwareUnsupported (not APIInitFailed) with an
\* erased record.
C5_AllRejected ==
  (/\ pc = "returned"
   /\ Len(Requested) = Len(versions) + 1
   /\ \A k \in 1 .. Len(Requested) : Rejected(Requested[k]))
    => /\ Creates => (ret.rec.ctx = NULL /\ ret.rec.wnd = NULL)
       /\ op = "InitialiseAPI" =>
            (ret.status = "APIHardwareUnsupported" /\ ret.rec = NullRecord)

\* InitialiseAPI against a driver that rejected all four requests
C5_Witness ==
  /\ pc = "returned" /\ op = "InitialiseAPI"
  /\ Len(Requested) = Len(versions) + 1
  /\ \A k \in 1 .. Len(Requested) : Rejected(Requested[k])
  /\ ret.status = "APIHardwareUnsupported"

\* C6: when a context request was accepted and the surface creation call
\* (window or pixel buffer) was rejected, creation returns the record with
\* that context and no surface, and has issued no DestroyContext.
C6_PartialRecord ==
  (/\ pc = "returned" /\ Creates
   /\ Len(Requested) >= 1 /\ Accepted(Requested[Len(Requested)])
   /\ Len(SurfaceCalls) >= 1 /\ Rejected(SurfaceCalls[Len(SurfaceCalls)]))
    => /\ ret.rec.ctx = Requested[Len(Requested)].res
       /\ ret.rec.wnd = NULL
       /\ Len(CallsTo("DestroyContext")) = 0

\* a window creation whose context was accepted and whose window surface was
\* rejected
C6_Witness ==
  /\ pc = "returned" /\ op = "MakeOutputWindow"
  /\ Len(Requested) >= 1 /\ Accepted(Requested[Len(Requested)])
  /\ Len(CallsTo("CreateWindowSurface")) = 1
  /\ Rejected(CallsTo("CreateWindowSurface")[1])
  /\ ret.rec.ctx # NULL /\ ret.rec.wnd = NULL

\* C7 (as claimed): on a record whose context, surface or both are null,
\* DeleteContext and DeleteReplayContext call no null entry point and pass no
\* null surface to DestroySurface and no null context to DestroyContext.
C7_NullSafe ==
  (/\ Ended /\ op \in {"DeleteContext", "DeleteReplayContext"}
   /\ (arg.rec.ctx = NULL \/ arg.rec.wnd = NULL))
    => /\ pc = "returned"
       /\ \A i \in 1 .. Len(log) :
            /\ log[i].res # Faulted
            /\ log[i].fn \in {"DestroySurface", "DestroyContext"}
                 => log[i].args[2] # NULL

\* C8: DeleteReplayContext calls, in this order, MakeCurrent(dpy, none, none,
\* none), DestroySurface(dpy, surface), DestroyContext(dpy, context), all
\* three whenever it returns having found DestroyContext resolved; when each
\* destroy call is issued the record's context is not the thread's current
\* context.
C8_ReleaseThenDestroy ==
  (Ended /\ op = "DeleteReplayContext") =>
    /\ Len(log) <= 3
    /\ Len(log) >= 1 =>
         /\ log[1].fn = "MakeCurrent"
         /\ log[1].args = <<arg.rec.dpy, NULL, NULL, NULL>>
    /\ Len(log) >= 2 =>
         /\ log[2].fn = "DestroySurface"
         /\ log[2].args = <<arg.rec.dpy, arg.rec.wnd>>
    /\ Len(log) >= 3 =>
         /\ log[3].fn = "DestroyContext"
         /\ log[3].args = <<arg.rec.dpy, arg.rec.ctx>>
    /\ (pc = "returned" /\ EGL["DestroyContext"]) => Len(log) = 3
    /\ \A i \in 1 .. Len(log) :
         (log[i].fn \in {"DestroySurface", "DestroyContext"} /\ arg.rec.ctx # NULL)
           => log[i].cur.ctx # arg.rec.ctx

\* the teardown of a record whose context was current on entry
C8_Witness ==
  /\ pc = "returned" /\ op = "DeleteReplayContext"
  /\ arg.rec.ctx # NULL /\ entry.ctx = arg.rec.ctx
  /\ Len(log) = 3
  /\ cur = NoBinding

\* C9 (as claimed): DeleteContext issues DestroySurface if and only if the
\* record's surface is non-null and DestroyContext if and only if its context
\* is non-null, and no call that changes the display or the binding.
C9_DestroysWhatIsPresent ==
  (Ended /\ op = "DeleteContext") =>
    /\ (Len(CallsTo("DestroySurface")) >= 1) <=> (arg.rec.wnd # NULL)
    /\ (Len(CallsTo("DestroyContext")) >= 1) <=> (arg.rec.ctx # NULL)
    /\ cur = entry

\* C9 (amended): DeleteContext issues DestroySurface(dpy, surface), once, if
\* and only if the record's surface is non-null and the DestroySurface entry
\* point is resolved, and DestroyContext(dpy, context), once, if and only if
\* the record's context is non-null and the DestroyContext entry point is
\* resolved, each decided independently of the other; it issues no other
\* call, never faults and leaves the thread's binding as it was.
C9_DestroysWhatIsPresentAndResolved ==
  (Ended /\ op = "DeleteContext") =>
    /\ pc = "returned"
    /\ CallsTo("DestroySurface") =
         IF arg.rec.wnd # NULL /\ EGL["DestroySurface"]
           THEN <<Call("DestroySurface", <<arg.rec.dpy, arg.rec.wnd>>, EGL_TRUE, entry)>>
           ELSE <<>>
    /\ CallsTo("DestroyContext") =
         IF arg.rec.ctx # NULL /\ EGL["DestroyContext"]
           THEN <<Call("DestroyContext", <<arg.rec.dpy, arg.rec.ctx>>, EGL_TRUE, entry)>>
           ELSE <<>>
    /\ \A i \in 1 .. Len(log) : log[i].fn \in {"DestroySurface", "DestroyContext"}
    /\ cur = entry

\* DeleteContext of a record with a context and no surface, the context being
\* the current one: only DestroyContext is called and the binding stays
C9_Witness ==
  /\ pc = "returned" /\ op = "DeleteContext"
  /\ arg.rec.ctx # NULL /\ arg.rec.wnd = NULL
  /\ entry.ctx = arg.rec.ctx
  /\ Len(log) = 1 /\ log[1].fn = "DestroyContext"
  /\ cur = entry

\* the driver module was loaded by the operation
ModuleLoaded == \E i \in 1 .. Len(log) : log[i].fn = "LoadModule" /\ log[i].res # NULL

\* the direct lookup of Symbols[i] was made by the operation
LookedUp(i) ==
  \E j \in 1 .. Len(log) : log[j].fn = "GetFunctionAddress" /\ log[j].args[2] = i

\* C10 (as claimed): PopulateForReplay returns success if and only if every
\* mandatory symbol is non-null in the table when it returns; a missing
\* mandatory symbol does not stop resolution: once the module is loaded every
\* symbol that is not resolved already is looked up in the same pass, and the
\* pass returns.
C10_SuccessIffMandatoryResolved ==
  (Ended /\ op = "PopulateForReplay") =>
    /\ pc = "returned"
    /\ ret.ok <=> (\A s \in Mandatory : EGL[s])
    /\ ModuleLoaded => \A i \in 1 .. Len(Symbols) : EGL[Symbols[i].name] \/ LookedUp(i)

\* C11 (as claimed): a PopulateForReplay call made after an earlier call
\* returned success does not call LoadModule and leaves the table as it was,
\* and no operation loads the driver module once the loader holds it: the
\* module is acquired once.
C11_PopulateOpensOnce ==
  [][pc = "idle" =>
       /\ (populated = "succeeded" /\ op' = "PopulateForReplay")
            => (Len(CallsTo("LoadModule"))' = 0 /\ EGL' = EGL)
       /\ opened => ~ModuleLoaded']_vars

\* C12 (as claimed): once a PopulateForReplay call has returned, whether
\* with success or with failure, no later operation, a repeated
\* PopulateForReplay against a module with other exports included, changes
\* any entry of the table.
C12_TableImmutable ==
  [][(pc = "idle" /\ populated # "never") => EGL' = EGL]_vars

\* the creation ran without a window: MakeContext (also inside
\* InitialiseAPI), or MakeOutputWindow given a descriptor whose tag is not
\* the platform's or whose handle is null
Offscreen ==
  \/ op \in {"MakeContext", "InitialiseAPI"}
  \/ op = "MakeOutputWindow"
       /\ (arg.window.system # PlatformSystem \/ arg.window.window = NULL)

\* C13: a creation without a window asks ChooseConfig for a pixel-buffer
\* capable configuration, issues no CreateWindowSurface and, once a context
\* request was accepted, exactly one CreatePbufferSurface of size 32x32; the
\* handle field of a descriptor tagged Unknown is not read.  Conversely
\* CreateWindowSurface is called only by MakeOutputWindow given the
\* platform's tag with a non-null handle, with that handle, after asking for
\* a window capable configuration.
C13_OffscreenPbuffer ==
  Ended =>
    /\ Offscreen =>
         /\ \A i \in 1 .. Len(log) :
              /\ log[i].fn = "ChooseConfig" => log[i].args[2] = EGL_PBUFFER_BIT
              /\ log[i].fn # "CreateWindowSurface"
              /\ log[i].fn = "CreatePbufferSurface"
                   => (log[i].args[3] = 32 /\ log[i].args[4] = 32)
         /\ (Len(Requested) >= 1 /\ Accepted(Requested[Len(Requested)]))
              => Len(CallsTo("CreatePbufferSurface")) = 1
    /\ \A i \in 1 .. Len(log) :
         log[i].fn = "CreateWindowSurface" =>
           /\ op = "MakeOutputWindow"
           /\ arg.window.system = PlatformSystem
           /\ arg.window.window # NULL
           /\ log[i].args[3] = arg.window.window
           /\ CallsTo("ChooseConfig")[1].args[2] = EGL_WINDOW_BIT
           /\ Len(CallsTo("CreatePbufferSurface")) = 0

\* MakeOutputWindow given a descriptor tagged Unknown that carries a handle:
\* the context got a 32x32 pixel buffer
C13_Witness ==
  /\ pc = "returned" /\ op = "MakeOutputWindow"
  /\ arg.window.system = "Unknown" /\ arg.window.window # NULL
  /\ Len(CallsTo("CreatePbufferSurface")) = 1
  /\ CallsTo("CreatePbufferSurface")[1].args[3] = PbufferSize
  /\ ret.rec.wnd # NULL

\* the driver found no configuration: ChooseConfig answered failure, or
\* success with numConfigs = 0
NoConfigFound ==
  \E i \in 1 .. Len(log) :
    log[i].fn = "ChooseConfig" /\ (log[i].res = EGL_FALSE \/ log[i].args[3] = 0)

\* C14 (as claimed): when the driver found no matching configuration,
\* whether it answered failure or success with zero configurations, creation
\* reports that no suitable configuration was found, issues no CreateContext
\* and no surface creation call, and returns a record with neither context
\* nor surface.
C14_NoConfigFails ==
  (Ended /\ NoConfigFound) =>
    /\ Len(Requested) = 0
    /\ Len(SurfaceCalls) = 0
    /\ (pc = "returned" /\ Creates) => (ret.rec.ctx = NULL /\ ret.rec.wnd = NULL)
    /\ pc = "returned" => "Couldn't find a suitable EGL config" \in Diagnostics

\* C15: MakeOutputWindow reports "Unexpected window system" if and only if
\* the descriptor's tag is neither the build platform's tag nor Unknown.  A
\* descriptor tagged Unknown is taken without that error and yields a
\* creation without a window: no CreateWindowSurface, and the context the
\* driver accepted is returned with a pixel-buffer surface requested for it.
C15_UnknownIsLegal ==
  (Ended /\ op = "MakeOutputWindow") =>
    /\ ("Unexpected window system" \in Diagnostics)
         <=> (arg.window.system \notin {PlatformSystem, "Unknown"})
    /\ arg.window.system = "Unknown" =>
         /\ Len(CallsTo("CreateWindowSurface")) = 0
         /\ (Len(Requested) >= 1 /\ Accepted(Requested[Len(Requested)]))
              => /\ Len(CallsTo("CreatePbufferSurface")) = 1
                 /\ pc = "returned" => ret.rec.ctx = Requested[Len(Requested)].res

\* MakeOutputWindow given a tag of another platform: the error is reported
\* and the creation goes on without a window
C15_Witness ==
  /\ pc = "returned" /\ op = "MakeOutputWindow"
  /\ arg.window.system \notin {PlatformSystem, "Unknown"}
  /\ arg.window.window # NULL
  /\ "Unexpected window system" \in Diagnostics
  /\ ret.rec.ctx # NULL

\* C16: GetReplayFunction calls EGL.GetProcAddress first and once.  When the
\* answer is non-null it returns it without loading the module or looking
\* the name up in it; when the answer is null it looks the name up in the
\* module, once, and returns what the lookup gave.  The result is null only
\* if both answers were null.
C16_QueryThenDirect ==
  (Ended /\ op = "GetReplayFunction") =>
    LET direct == CallsTo("GetFunctionAddress")
    IN  /\ Len(log) >= 1 /\ log[1].fn = "GetProcAddress"
        /\ Len(CallsTo("GetProcAddress")) = 1
        /\ \A i \in 2 .. Len(log) :
             /\ log[i].fn \in {"LoadModule", "GetFunctionAddress"}
             /\ log[1].res = NULL
        /\ pc = "returned" =>
             /\ log[1].res # NULL => (ret.ptr = log[1].res /\ Len(log) = 1)
             /\ log[1].res = NULL =>
                  /\ Len(direct) = 1
                  /\ log[Len(log)] = direct[1]
                  /\ ret.ptr = direct[1].res
             /\ ret.ptr = NULL =>
                  (log[1].res = NULL /\ direct[1].res = NULL)

\* a lookup the driver's GetProcAddress answered with null and the module
\* resolved
C16_Witness ==
  /\ pc = "returned" /\ op = "GetReplayFunction"
  /\ log[1].fn = "GetProcAddress" /\ log[1].res = NULL
  /\ Len(CallsTo("GetFunctionAddress")) = 1
  /\ CallsTo("GetFunctionAddress")[1].res # NULL
  /\ ret.ptr = CallsTo("GetFunctionAddress")[1].res

\* the direct lookup of Symbols[i] was made by the operation and gave null
DirectNull(i) ==
  \E j \in 1 .. Len(log) :
    log[j].fn = "GetFunctionAddress" /\ log[j].args[2] = i /\ log[j].res = NULL

\* Symbols[i] was asked of the driver's GetProcAddress by the operation
ViaProcAsked(i) ==
  \E j \in 1 .. Len(log) : log[j].fn = "GetProcAddress" /\ log[j].args = <<i>>

\* C17: PopulateForReplay asks the driver's GetProcAddress for a symbol if
\* and only if the symbol is an extension and its direct lookup gave null,
\* and then after that lookup; a mandatory symbol is never asked of
\* GetProcAddress.  An extension left unresolved emits no diagnostic and does
\* not make the result false: with the module loaded, the result is true
\* whenever every mandatory symbol is resolved.
C17_ViaProcOnlyForExtensions ==
  (Ended /\ op = "PopulateForReplay") =>
    /\ \A i \in 1 .. Len(Symbols) :
         ViaProcAsked(i) <=> (Symbols[i].isext /\ DirectNull(i))
    /\ \A j \in 1 .. Len(log) :
         log[j].fn = "GetProcAddress" =>
           /\ j > 1
           /\ log[j - 1].fn = "GetFunctionAddress"
           /\ log[j - 1].args[2] = log[j].args[1]
    /\ \A s \in Optional : ("Unable to load '" \o s \o "'") \notin Diagnostics
    /\ (pc = "returned" /\ ModuleLoaded /\ \A s \in Mandatory : EGL[s]) => ret.ok

\* a population in which the one extension was neither exported by the
\* module nor known to GetProcAddress: the result is true without diagnostic
C17_Witness ==
  /\ pc = "returned" /\ op = "PopulateForReplay"
  /\ \E i \in 1 .. Len(Symbols) :
       /\ Symbols[i].isext /\ DirectNull(i) /\ ViaProcAsked(i)
       /\ ~EGL[Symbols[i].name]
  /\ ret.ok /\ diag = <<>>

\* the entry point names of the log, in order
Names == [i \in 1 .. Len(log) |-> log[i].fn]

\* one or both surface queries of the log failed
QueryFailed ==
  \E i \in 1 .. Len(log) : log[i].fn = "QuerySurface" /\ log[i].res = EGL_FALSE

\* the binding that has the record MakeContextCurrent was given current
TargetBinding == Bound(BindingOf(arg.rec))

\* the calls in the order snapshot, switch, width, height, restore with
\* their arguments, GetError between the queries and the restore when a
\* query failed
DimensionCallsInOrder ==
  /\ Names = <<"GetCurrentContext", "GetCurrentDisplay", "GetCurrentSurface",
               "MakeCurrent", "QuerySurface", "QuerySurface">>
              \o (IF QueryFailed THEN <<"GetError">> ELSE <<>>)
              \o <<"MakeCurrent">>
  /\ log[4].args = <<arg.rec.dpy, arg.rec.wnd, arg.rec.wnd, arg.rec.ctx>>
  /\ log[5].args = <<arg.rec.dpy, arg.rec.wnd, EGL_WIDTH>>
  /\ log[6].args = <<arg.rec.dpy, arg.rec.wnd, EGL_HEIGHT>>
  /\ log[Len(log)].args = <<entry.dpy, entry.read, entry.read, entry.ctx>>

\* C18 (as claimed): GetOutputWindowDimensions issues its calls in the order
\* snapshot, switch to the target, width query, height query, restore, all
\* of them whatever the switch and the width query answer, and when each of
\* the two queries is issued the target record is the thread's binding.
\* Stated for a table in which MakeCurrent is resolved.
C18_QueriesUnderTarget ==
  (pc = "returned" /\ op = "GetOutputWindowDimensions" /\ EGL["MakeCurrent"]) =>
    /\ DimensionCallsInOrder
    /\ log[5].cur = TargetBinding
    /\ log[6].cur = TargetBinding

\* C18 (amended): the calls are issued in the order snapshot, switch to the
\* target, width query, height query, restore, all of them whatever the
\* switch and the width query answer; when each of the two queries is issued
\* the target record is the thread's binding if the driver performed the
\* switch, and otherwise the binding is the one that was current on entry.
\* With MakeCurrent unresolved neither switch nor restore is called and the
\* queries are issued under the binding of entry.
C18_QueriesAfterSwitchAttempt ==
  (pc = "returned" /\ op = "GetOutputWindowDimensions") =>
    IF EGL["MakeCurrent"]
      THEN /\ DimensionCallsInOrder
           /\ \A q \in 5 .. 6 :
                log[q].cur = IF log[4].res = EGL_TRUE THEN TargetBinding ELSE entry
      ELSE /\ Names = <<"GetCurrentContext", "GetCurrentDisplay", "GetCurrentSurface",
                        "QuerySurface", "QuerySurface">>
                       \o (IF QueryFailed THEN <<"GetError">> ELSE <<>>)
           /\ \A q \in 4 .. 5 : log[q].cur = entry
           /\ cur = entry

\* a query of a record the driver refused to make current: both queries and
\* the restore were issued, the queries under the binding of entry
C18_Witness ==
  /\ pc = "returned" /\ op = "GetOutputWindowDimensions"
  /\ EGL["MakeCurrent"]
  /\ Len(log) >= 7
  /\ log[4].fn = "MakeCurrent" /\ log[4].res = EGL_FALSE
  /\ entry # TargetBinding
  /\ log[5].fn = "QuerySurface" /\ log[5].cur = entry
  /\ log[6].fn = "QuerySurface" /\ log[6].cur = entry
  /\ log[Len(log)].fn = "MakeCurrent"

\* the handles the driver created during the operation
CreatedContexts == {Requested[k].res : k \in 1 .. Len(Requested)} \cap Handles
CreatedSurfaces == {SurfaceCalls[k].res : k \in 1 .. Len(SurfaceCalls)} \cap Handles

\* the operation called the destroy entry point fn on handle h
Destroyed(fn, h) ==
  \E j \in 1 .. Len(log) : log[j].fn = fn /\ log[j].args[2] = h

\* the parts of C19 that do not concern the handles created
InitialiseAPIStatus ==
  /\ ret.status \in {"Succeeded", "APIHardwareUnsupported", "APIInitFailed"}
  /\ ret.status = "Succeeded" =>
       /\ ret.rec.ctx \in CreatedContexts /\ ret.rec.wnd \in CreatedSurfaces
       /\ \A c \in CreatedContexts : ~Destroyed("DestroyContext", c)
       /\ \A w \in CreatedSurfaces : ~Destroyed("DestroySurface", w)
  /\ ret.status = "APIHardwareUnsupported" => ret.rec = NullRecord
  /\ ret.status = "APIInitFailed" <=> CallsTo("GetDisplay")[1].res = NULL
  /\ ret.status = "APIInitFailed" =>
       (ret.rec = arg.rec /\ Len(Requested) = 0 /\ Len(SurfaceCalls) = 0)

\* C19 (as claimed): InitialiseAPI returns Succeeded only with a record that
\* has both context and surface; when it returns APIHardwareUnsupported every
\* context and every surface the driver created during the call has been
\* destroyed and the record is null; it returns APIInitFailed only when
\* GetDisplay gave no display.
C19_AllOrNothing ==
  (pc = "returned" /\ op = "InitialiseAPI") =>
    /\ InitialiseAPIStatus
    /\ ret.status = "APIHardwareUnsupported" =>
         /\ \A c \in CreatedContexts : Destroyed("DestroyContext", c)
         /\ \A w \in CreatedSurfaces : Destroyed("DestroySurface", w)

\* C19 (amended): as claimed, except that a handle created during a call
\* that returns APIHardwareUnsupported has been destroyed if and only if its
\* destroy entry point is resolved: on a table without DestroyContext the
\* context of a partial record is given up without being destroyed.
C19_AllOrNothingWhenResolved ==
  (pc = "returned" /\ op = "InitialiseAPI") =>
    /\ InitialiseAPIStatus
    /\ ret.status = "APIHardwareUnsupported" =>
         /\ \A c \in CreatedContexts :
              Destroyed("DestroyContext", c) <=> EGL["DestroyContext"]
         /\ \A w \in CreatedSurfaces :
              Destroyed("DestroySurface", w) <=> EGL["DestroySurface"]

\* InitialiseAPI whose context was accepted and whose pixel buffer was
\* rejected: the context was destroyed and the record erased
C19_Witness ==
  /\ pc = "returned" /\ op = "InitialiseAPI"
  /\ ret.status = "APIHardwareUnsupported"
  /\ CreatedContexts # {}
  /\ \A c \in CreatedContexts : Destroyed("DestroyContext", c)
  /\ ret.rec = NullRecord

\* the display a creation was run against: the one MakeContext was given in
\* its share record, the one GetDisplay gave MakeOutputWindow
CreationDisplay ==
  IF op = "MakeContext" THEN arg.rec.dpy ELSE CallsTo("GetDisplay")[1].res

\* C20: a surface creation call is issued if and only if a context request
\* was accepted, then exactly once, after every context request and against
\* the same display; no record MakeContext or MakeOutputWindow returns has a
\* surface without a context, its surface is the one that call gave, and,
\* whenever the creation ran, its display is the display the creation was
\* run against.
C20_SurfaceAfterContext ==
  Ended =>
    /\ Len(SurfaceCalls) <= 1
    /\ (Len(SurfaceCalls) = 1)
         <=> (Len(Requested) >= 1 /\ Accepted(Requested[Len(Requested)]))
    /\ \A i \in 1 .. Len(log), j \in 1 .. Len(log) :
         (log[i].fn = "CreateContext"
            /\ log[j].fn \in {"CreateWindowSurface", "CreatePbufferSurface"})
           => (i < j /\ log[i].args[1] = log[j].args[1])
    /\ (pc = "returned" /\ Creates) =>
         /\ ~(ret.rec.wnd # NULL /\ ret.rec.ctx = NULL)
         /\ ret.rec.wnd # NULL => ret.rec.wnd = SurfaceCalls[1].res
         /\ Len(CallsTo("ChooseConfig")) = 1 =>
              /\ ret.rec.dpy = CreationDisplay
              /\ CallsTo("ChooseConfig")[1].args[1] = CreationDisplay

\* a window creation that got its context at the legacy request and then
\* its one window surface, on the default display
C20_Witness ==
  /\ pc = "returned" /\ op = "MakeOutputWindow"
  /\ Len(Requested) = Len(versions) + 1
  /\ Accepted(Requested[Len(Requested)])
  /\ Len(SurfaceCalls) = 1 /\ log[Len(log)] = SurfaceCalls[1]
  /\ SurfaceCalls[1].fn = "CreateWindowSurface"
  /\ ret.rec = Record(DefaultDisplay, Requested[Len(Requested)].res, SurfaceCalls[1].res)
  /\ ret.rec.wnd # NULL

====
